---------------------------- MODULE Spec2Model ----------------------------
(***************************************************************************)
(* A model of server.js: the content-management API over PostgreSQL.       *)
(*                                                                         *)
(* Values.  A JSON value is modelled by a sequence of tokens: a string is  *)
(* the sequence of its characters (the empty string is << >>), and null,   *)
(* the booleans, the numbers and the lists start with a token no character *)
(* equals.  A key that is absent from a request body (undefined in the     *)
(* code) is a key outside the payload's DOMAIN.                            *)
(***************************************************************************)
EXTENDS Integers, Sequences, FiniteSets, TLC

VARIABLES
    route,      \* the router a behaviour exercises (a resource's endpoints)
    db,         \* table name -> its rows in insertion order (one field per column)
    seq,        \* table name -> the next value of the SERIAL id sequence
    now,        \* Date.now()
    files,      \* the names of the files in the upload directory
    inflight,   \* client -> its PUT /api/site/contact request
    lastPut,    \* req.body.data of the contact statement executed last
    last        \* the last request answered and its response

vars == <<route, db, seq, now, files, inflight, lastPut, last>>

-----------------------------------------------------------------------------
(* Bounds of the model *)

MaxSeq == 2      \* ids a table's SERIAL sequence hands out
MaxNow == 1      \* milliseconds the clock advances

-----------------------------------------------------------------------------
(* JSON values *)

NULL == <<"#null">>
JTrue == <<"#true">>
JFalse == <<"#false">>
UNDEF == <<"#undefined">>
DigitTok == <<"#0", "#1", "#2", "#3", "#4", "#5", "#6", "#7", "#8", "#9">>
DigitChar == <<"0", "1", "2", "3", "4", "5", "6", "7", "8", "9">>
Num(n) == <<DigitTok[n + 1]>>
IsNum(v) == \E n \in 0..9 : v = Num(n)
NumOf(v) == CHOOSE n \in 0..9 : v = Num(n)
EmptyList == <<"#[", "#]">>
ListOf(items) == <<"#[">> \o items \o <<"#]">>
IsList(v) == Len(v) >= 2 /\ v[1] = "#["
IsBool(v) == v \in {JTrue, JFalse}
IsText(v) == \A i \in 1..Len(v) : v[i] \in {"a", "b", "A", " ", "-", "no-title-"} \cup
                                            {DigitChar[k] : k \in 1..10}

\* The value of body[k]: undefined when the body has no key k.
Get(body, k) == IF k \in DOMAIN body THEN body[k] ELSE UNDEF

\* JavaScript truthiness: "", 0, false, null and undefined are falsy.
Falsy(v) == v \in {<< >>, Num(0), JFalse, NULL, UNDEF}

\* a || b and a ?? b
OrElse(a, b) == IF Falsy(a) THEN b ELSE a
Coalesce(a, b) == IF a \in {NULL, UNDEF} THEN b ELSE a

\* The driver binds undefined as NULL.
Param(v) == IF v = UNDEF THEN NULL ELSE v

\* JSON.stringify: a string is quoted, every other value is its own JSON text.
JsonStringify(v) == IF IsText(v) THEN <<"#q">> \o v \o <<"#q">> ELSE v

\* The ::jsonb cast together with the driver's parse of the column on the way out.
JsonbParse(t) ==
    IF Len(t) >= 2 /\ t[1] = "#q" THEN SubSeq(t, 2, Len(t) - 1) ELSE t

-----------------------------------------------------------------------------
(* The schema that initDB creates *)

Tables == {"product_categories", "service_categories", "products", "services",
           "news", "certifications", "customer_logos"}

Columns(t) ==
    CASE t = "product_categories" ->
            {"id", "title", "slug", "sort_order", "is_active", "subcategories"}
      [] t = "service_categories" ->
            {"id", "title", "slug", "sort_order", "is_active"}
      [] t = "products" ->
            {"id", "category", "subcategory", "name", "description", "image_url",
             "sort_order", "is_active", "cta_url"}
      [] t = "services" ->
            {"id", "title", "description", "image_url", "sort_order", "is_active"}
      [] t = "news" ->
            {"id", "title", "content", "image_url", "sort_order", "is_active"}
      [] t = "certifications" -> {"id", "title", "image_url", "sort_order"}
      [] t = "customer_logos" -> {"id", "name", "image_url", "sort_order"}
      [] t = "contact_page" ->
            {"id", "heading", "description", "email", "phone", "line_label",
             "line_url", "line_icon_url", "address_lines", "open_hours",
             "map_title", "map_embed_url", "updated_at"}

NotNullColumns(t) ==
    CASE t \in {"product_categories", "service_categories"} -> {"id", "title", "slug"}
      [] t = "products" -> {"id", "category", "name"}
      [] t \in {"services", "news", "certifications"} -> {"id", "title"}
      [] t = "customer_logos" -> {"id", "name"}
      [] t = "contact_page" -> {"id"}

UniqueColumns(t) ==
    IF t \in {"product_categories", "service_categories"} THEN {"id", "slug"} ELSE {"id"}

ColType(c) ==
    CASE c = "id" -> "int"
      [] c \in {"sort_order", "updated_at"} -> "int"
      [] c = "is_active" -> "bool"
      [] c \in {"subcategories", "address_lines"} -> "jsonb"
      [] OTHER -> "text"

-----------------------------------------------------------------------------
(* PostgreSQL: one statement is one atomic step *)

CastError == <<"#error">>

\* The value a column of type ty stores for the bound parameter v.
Cast(ty, v) ==
    CASE v = NULL -> NULL
      [] ty = "int" -> IF IsNum(v) THEN v ELSE CastError
      [] ty = "bool" ->
            IF IsBool(v) THEN v
            ELSE IF v \in {Num(1), <<"1">>} THEN JTrue
            ELSE IF v \in {Num(0), <<"0">>} THEN JFalse
            ELSE CastError
      [] ty = "jsonb" -> JsonbParse(v)
      [] OTHER ->
            IF IsText(v) THEN v
            ELSE IF IsNum(v) THEN <<DigitChar[NumOf(v) + 1]>>
            ELSE IF v = JTrue THEN <<"t">>
            ELSE IF v = JFalse THEN <<"f">>
            ELSE v

\* An unquoted identifier is folded to lower case by the SQL parser.
Fold(k) ==
    CASE k = "ID" -> "id"
      [] k = "Title" -> "title"
      [] OTHER -> k

\* NOT NULL, PRIMARY KEY and UNIQUE of table t over the rows (a sequence).
ConstraintsHold(t, rows) ==
    /\ \A i \in 1..Len(rows) : \A c \in NotNullColumns(t) : rows[i][c] # NULL
    /\ \A i, j \in 1..Len(rows) : \A c \in UniqueColumns(t) :
            (i # j /\ rows[i][c] # NULL) => rows[i][c] # rows[j][c]

Ok(rows, ret) == [err |-> "none", rows |-> rows, ret |-> ret]
SqlError(code, rows) == [err |-> code, rows |-> rows, ret |-> << >>]

RECURSIVE Filter(_, _)
\* the rows of a sequence whose id is in ids, in order
Filter(rows, ids) ==
    IF rows = << >> THEN << >>
    ELSE (IF Head(rows)["id"] \in ids THEN <<Head(rows)>> ELSE << >>)
            \o Filter(Tail(rows), ids)

IdsOf(rows) == {rows[i]["id"] : i \in 1..Len(rows)}

\* INSERT INTO t (cols of vals) VALUES (...) RETURNING *, the id drawn from the
\* table's sequence.
SqlInsert(t, rows, nextval, vals) ==
    LET casts == [c \in DOMAIN vals |-> Cast(ColType(c), vals[c])]
        row == [c \in Columns(t) |->
                    IF c = "id" THEN Num(nextval) ELSE casts[c]]
        rows2 == Append(rows, row)
    IN  IF \E c \in DOMAIN casts : casts[c] = CastError
            THEN SqlError("invalid_text_representation", rows)
        ELSE IF ~ConstraintsHold(t, rows2) THEN SqlError("constraint", rows)
        ELSE Ok(rows2, <<row>>)

\* UPDATE t SET k = v, ... WHERE id = id RETURNING *, for the assignments
\* k |-> v of sets: the keys are the column names as the statement spells them.
SqlUpdate(t, rows, sets, id) ==
    LET keys == DOMAIN sets
        casts == [k \in keys |-> Cast(ColType(Fold(k)), sets[k])]
        upd(r) == [c \in Columns(t) |->
                    IF \E k \in keys : Fold(k) = c
                    THEN casts[CHOOSE k \in keys : Fold(k) = c] ELSE r[c]]
        rows2 == [i \in 1..Len(rows) |->
                    IF rows[i]["id"] = id THEN upd(rows[i]) ELSE rows[i]]
        hit == {i \in 1..Len(rows) : rows[i]["id"] = id}
    IN  IF \E k \in keys : Fold(k) \notin Columns(t)
            THEN SqlError("undefined_column", rows)
        ELSE IF \E k1, k2 \in keys : k1 # k2 /\ Fold(k1) = Fold(k2)
            THEN SqlError("multiple_assignments", rows)
        ELSE IF \E k \in keys : casts[k] = CastError
            THEN SqlError("invalid_text_representation", rows)
        ELSE IF ~ConstraintsHold(t, rows2) THEN SqlError("constraint", rows)
        ELSE Ok(rows2, [n \in 1..Cardinality(hit) |->
                            upd(rows[CHOOSE i \in hit : TRUE])])

\* DELETE FROM t WHERE id = id RETURNING *
SqlDelete(rows, id) ==
    Ok(Filter(rows, IdsOf(rows) \ {id}), Filter(rows, {id}))

\* SELECT * FROM t WHERE id = id
SqlSelect(rows, id) == Ok(rows, Filter(rows, {id}))

-----------------------------------------------------------------------------
(* Middleware *)

AdminHeader == <<"Bearer", "tok_admin">>

\* The split(" ") parts of the Authorization header of a request; << >> is a
\* request without the header.
Headers == {<< >>, <<"Bearer">>, <<"Bearer", "tok_forged">>,
            <<"Bearer", "tok_editor">>, <<"Bearer", "tok_norole">>, AdminHeader}

\* jwt.verify(token, JWT_SECRET): the claims of a token this server signed, or a throw.
JwtVerify(token) ==
    CASE token = "tok_admin" -> [ok |-> TRUE, role |-> "admin"]
      [] token = "tok_editor" -> [ok |-> TRUE, role |-> "editor"]
      [] token = "tok_norole" -> [ok |-> TRUE, role |-> "undefined"]
      [] OTHER -> [ok |-> FALSE, role |-> "undefined"]

Respond(status, msg, rows) == [status |-> status, msg |-> msg, rows |-> rows]

Pass == Respond(0, "next", << >>)

authRequired(hdr) ==
    LET token == IF Len(hdr) >= 2 THEN hdr[2] ELSE ""
    IN  IF token = "" THEN Respond(401, "No Token", << >>)
        ELSE IF ~JwtVerify(token).ok THEN Respond(401, "Invalid Token", << >>)
        ELSE Pass

\* Mutant of adminRequired: the role is never compared.
adminRequiredAnyRole(hdr) == Pass

adminRequired(hdr) ==
    IF JwtVerify(hdr[2]).role # "admin" THEN Respond(403, "Admin Only", << >>)
    ELSE Pass

\* The middleware chain authRequired, adminRequired of every mutating route.
Gates(hdr) ==
    IF authRequired(hdr) # Pass THEN authRequired(hdr) ELSE adminRequired(hdr)

-----------------------------------------------------------------------------
(* Helper functions *)

Throw == <<"#throw">>

RECURSIVE TrimStart(_)
TrimStart(s) == IF s # << >> /\ Head(s) = " " THEN TrimStart(Tail(s)) ELSE s

RECURSIVE TrimEnd(_)
TrimEnd(s) ==
    IF s # << >> /\ s[Len(s)] = " " THEN TrimEnd(SubSeq(s, 1, Len(s) - 1)) ELSE s

Trim(s) == TrimEnd(TrimStart(s))

RECURSIVE Hyphenate(_)
\* replace(/\s+/g, "-")
Hyphenate(s) ==
    IF s = << >> THEN << >>
    ELSE IF Head(s) = " " THEN <<"-">> \o Hyphenate(TrimStart(s))
    ELSE <<Head(s)>> \o Hyphenate(Tail(s))

ToLowerCase(s) == [i \in 1..Len(s) |-> IF s[i] = "A" THEN "a" ELSE s[i]]

\* generateSlug(title, existingSlug = ""), clock being what Date.now() returns
generateSlug(title, existingSlug, clock) ==
    IF ~Falsy(existingSlug) THEN existingSlug
    ELSE IF Falsy(title) THEN <<"no-title-", DigitChar[clock + 1]>>
    ELSE IF ~IsText(title) THEN Throw
    ELSE ToLowerCase(Hyphenate(Trim(title)))

NoStmt == [op |-> "none", table |-> "none", cols |-> {}]
Stmt(op, t, cols) == [op |-> op, table |-> t, cols |-> cols]

\* What a handler's storage call comes to: the value it got (kind, ret), the
\* table's rows afterwards and the statement executed.
Outcome(kind, rows, ret, stmt) == [kind |-> kind, rows |-> rows, ret |-> ret, stmt |-> stmt]

\* dynamicUpdate(table, id, updates): kind is "null" (nothing to set), "row"
\* (rows[0]), "undefined" (rows[0] of no rows) or "throw".
dynamicUpdate(t, rows, id, updates) ==
    LET keys == DOMAIN updates \ {"id"}
        sets == [k \in keys |->
                    IF k \in {"subcategories", "address_lines"}
                    THEN JsonStringify(updates[k]) ELSE updates[k]]
        q == SqlUpdate(t, rows, sets, id)
        stmt == Stmt("UPDATE", t, keys)
    IN  IF keys = {} THEN Outcome("null", rows, << >>, NoStmt)
        ELSE IF q.err # "none" THEN Outcome("throw", rows, << >>, stmt)
        ELSE IF q.ret = << >> THEN Outcome("undefined", q.rows, << >>, stmt)
        ELSE Outcome("row", q.rows, q.ret, stmt)

-----------------------------------------------------------------------------
(* Route handlers.  Each makes at most one storage call, so a handler is one *)
(* atomic step: what it answers (resp) and what its storage call came to.   *)

Slugged == {"product_categories", "service_categories"}

Handled(resp, out) == [resp |-> resp, out |-> out]

NoCall(rows) == Outcome("none", rows, << >>, NoStmt)

\* catch (e) { res.status(500).json({ error: e.message }) }
Caught(msg, out) == Handled(Respond(500, msg, << >>), out)

\* The parameter list of each INSERT, column by column.
InsertValues(t, body, clock) ==
    CASE t = "product_categories" ->
            [title |-> Param(Get(body, "title")),
             slug |-> Param(generateSlug(Get(body, "title"), Get(body, "slug"), clock)),
             sort_order |-> OrElse(Get(body, "sort_order"), Num(0)),
             is_active |-> Coalesce(Get(body, "is_active"), JTrue),
             subcategories |-> JsonStringify(OrElse(Get(body, "subcategories"), EmptyList))]
      [] t = "service_categories" ->
            [title |-> Param(Get(body, "title")),
             slug |-> Param(generateSlug(Get(body, "title"), Get(body, "slug"), clock)),
             sort_order |-> OrElse(Get(body, "sort_order"), Num(0)),
             is_active |-> Coalesce(Get(body, "is_active"), JTrue)]
      [] t = "products" ->
            [category |-> Param(Get(body, "category")),
             subcategory |-> OrElse(Get(body, "subcategory"), << >>),
             name |-> Param(Get(body, "name")),
             description |-> OrElse(Get(body, "description"), << >>),
             image_url |-> OrElse(Get(body, "image_url"), << >>),
             sort_order |-> OrElse(Get(body, "sort_order"), Num(0)),
             is_active |-> Coalesce(Get(body, "is_active"), JTrue),
             cta_url |-> OrElse(Get(body, "cta_url"), << >>)]
      [] t = "services" ->
            [c \in {"title", "description", "image_url", "sort_order", "is_active"} |->
                Param(Get(body, c))]
      [] t = "news" ->
            [c \in {"title", "content", "image_url", "sort_order", "is_active"} |->
                Param(Get(body, c))]
      [] t = "certifications" ->
            [c \in {"title", "image_url", "sort_order"} |-> Param(Get(body, c))]
      [] t = "customer_logos" ->
            [c \in {"name", "image_url", "sort_order"} |-> Param(Get(body, c))]

\* app.post("/api/<t>")
PostHandler(t, rows, nextval, body, clock) ==
    LET vals == InsertValues(t, body, clock)
        q == SqlInsert(t, rows, nextval, vals)
        stmt == Stmt("INSERT", t, DOMAIN vals)
    IN  IF t = "products" /\ (Falsy(Get(body, "category")) \/ Falsy(Get(body, "name")))
            THEN Handled(Respond(400, "Category and Name are required", << >>), NoCall(rows))
        ELSE IF t \in Slugged /\ vals["slug"] = Throw
            THEN Caught("title.trim is not a function", NoCall(rows))
        ELSE IF q.err # "none" THEN Caught(q.err, Outcome("throw", rows, << >>, stmt))
        ELSE Handled(Respond(200, "", q.ret), Outcome("row", q.rows, q.ret, stmt))

\* The 404 message of each PATCH route.
PatchMissingMessage(t) ==
    IF t \in {"product_categories", "products"} THEN "Not found or No changes"
    ELSE "Not found"

\* req.body as dynamicUpdate gets it: the category routes add a slug.
PatchUpdates(t, body, clock) ==
    IF t \in Slugged /\ ~Falsy(Get(body, "title")) /\ Falsy(Get(body, "slug"))
    THEN [k \in DOMAIN body \cup {"slug"} |->
            IF k = "slug" THEN generateSlug(body["title"], UNDEF, clock) ELSE body[k]]
    ELSE body

\* if (!updated) return res.status(404)...; res.json(updated)
PatchResponse(t, out) ==
    CASE out.kind = "throw" -> Respond(500, "query failed", << >>)
      [] out.kind \in {"null", "undefined"} -> Respond(404, PatchMissingMessage(t), << >>)
      [] OTHER -> Respond(200, "", out.ret)

\* app.patch("/api/<t>/:id")
PatchHandler(t, rows, id, body, clock) ==
    LET updates == PatchUpdates(t, body, clock)
        out == dynamicUpdate(t, rows, id, updates)
    IN  IF t \in Slugged /\ Get(updates, "slug") = Throw
            THEN Caught("title.trim is not a function", NoCall(rows))
        ELSE Handled(PatchResponse(t, out), out)

\* The DELETE routes that read RETURNING * and answer 404 on no row.
DeleteChecksRows(t) == t \in {"product_categories", "service_categories", "products"}

\* app.delete("/api/<t>/:id")
DeleteHandler(t, rows, id) ==
    LET q == SqlDelete(rows, id)
        out == Outcome(IF q.ret = << >> THEN "undefined" ELSE "row", q.rows, q.ret,
                       Stmt("DELETE", t, {}))
    IN  IF DeleteChecksRows(t) /\ q.ret = << >>
            THEN Handled(Respond(404, "Not found", << >>), out)
        ELSE Handled(Respond(200, "Deleted", << >>), out)

\* The resources with a GET /api/<t>/:id route.
HasGet == {"products", "services", "news"}

\* app.get("/api/<t>/:id")
GetHandler(t, rows, id) ==
    LET q == SqlSelect(rows, id)
        out == Outcome(IF q.ret = << >> THEN "undefined" ELSE "row", q.rows, q.ret,
                       Stmt("SELECT", t, {}))
    IN  IF q.ret = << >> THEN Handled(Respond(404, "Not found", << >>), out)
        ELSE Handled(Respond(200, "", q.ret), out)

-----------------------------------------------------------------------------
(* The contact page and the upload *)

ContactFields == Columns("contact_page") \ {"id", "updated_at"}

\* The values array of app.put("/api/site/contact"), by column.
PutValues(data) ==
    [f \in ContactFields |->
        IF f = "address_lines"
        THEN JsonStringify(OrElse(Get(data, f), EmptyList))
        ELSE Param(Get(data, f))]

\* The columns of the DO UPDATE SET list.
UpsertSetColumns == ContactFields \cup {"updated_at"}

\* Mutant of SqlUpsertContact: a plain INSERT, which fails on the second row 1.
SqlInsertContact(rows, vals, clock) ==
    LET row == [c \in Columns("contact_page") |->
                    CASE c = "id" -> Num(1)
                      [] c = "updated_at" -> Num(clock)
                      [] OTHER -> Cast(ColType(c), vals[c])]
    IN  IF Num(1) \in IdsOf(rows) THEN SqlError("constraint", rows)
        ELSE Ok(Append(rows, row), <<row>>)

\* Mutant of SqlUpsertContact: ON CONFLICT (id) DO UPDATE that leaves phone out
\* of its SET list.
SqlUpsertContactStalePhone(rows, vals, clock) ==
    LET excluded == [c \in Columns("contact_page") |->
                        CASE c = "id" -> Num(1)
                          [] c = "updated_at" -> Num(clock)
                          [] OTHER -> Cast(ColType(c), vals[c])]
        upd(r) == [c \in Columns("contact_page") |->
                        IF c \in {"id", "phone"} THEN r[c] ELSE excluded[c]]
        rows2 == IF Num(1) \in IdsOf(rows)
                 THEN [i \in 1..Len(rows) |->
                        IF rows[i]["id"] = Num(1) THEN upd(rows[i]) ELSE rows[i]]
                 ELSE Append(rows, excluded)
    IN  Ok(rows2, Filter(rows2, {Num(1)}))

\* INSERT INTO contact_page (id, ...) VALUES (1, ...) ON CONFLICT (id) DO UPDATE
\* SET ... RETURNING *, CURRENT_TIMESTAMP being clock.
SqlUpsertContact(rows, vals, clock) ==
    LET excluded == [c \in Columns("contact_page") |->
                        CASE c = "id" -> Num(1)
                          [] c = "updated_at" -> Num(clock)
                          [] OTHER -> Cast(ColType(c), vals[c])]
        upd(r) == [c \in Columns("contact_page") |->
                        IF c \in UpsertSetColumns THEN excluded[c] ELSE r[c]]
        rows2 == IF Num(1) \in IdsOf(rows)
                 THEN [i \in 1..Len(rows) |->
                        IF rows[i]["id"] = Num(1) THEN upd(rows[i]) ELSE rows[i]]
                 ELSE Append(rows, excluded)
    IN  Ok(rows2, Filter(rows2, {Num(1)}))

\* multer's filename: Date.now() + path.extname(file.originalname)
UploadName(clock, ext) == <<DigitChar[clock + 1], ext>>

-----------------------------------------------------------------------------
(* The state machine *)

EmptyBody == [k \in {} |-> NULL]
NoId == << >>
Clients == {1, 2}
Routes == Tables \cup {"contact_page", "upload"}

NoRequest ==
    [op |-> "none", res |-> "none", id |-> NoId, hdr |-> << >>, body |-> EmptyBody,
     status |-> 0, msg |-> "", rows |-> << >>, stmt |-> NoStmt, kind |-> "none"]

Answer(op, res, id, hdr, body, h) ==
    [op |-> op, res |-> res, id |-> id, hdr |-> hdr, body |-> body,
     status |-> h.resp.status, msg |-> h.resp.msg, rows |-> h.resp.rows,
     stmt |-> h.out.stmt, kind |-> h.out.kind]

\* app.<method>(path, authRequired, adminRequired, handler): the handler h runs
\* when both middleware call next().
Chain(hdr, rows, h) ==
    IF Gates(hdr) # Pass THEN Handled(Gates(hdr), NoCall(rows)) ELSE h

\* A client's contact request: idle, awaiting pool.query ("query"), or answered
\* ("done"); conc records that another request was awaiting its query meanwhile.
Idle == [pc |-> "idle", data |-> EmptyBody, conc |-> FALSE, status |-> 0]

Init ==
    /\ route \in Routes
    /\ db = [t \in Tables \cup {"contact_page"} |-> << >>]
    /\ seq = [t \in Tables |-> 1]
    /\ now = 0
    /\ files = {}
    /\ inflight = [c \in Clients |-> Idle]
    /\ lastPut = EmptyBody
    /\ last = NoRequest

Post(t, hdr, body) ==
    /\ route = t
    /\ seq[t] <= MaxSeq
    /\ \E h \in {Chain(hdr, db[t], PostHandler(t, db[t], seq[t], body, now))} :
           /\ db' = [db EXCEPT ![t] = h.out.rows]
           /\ seq' = [seq EXCEPT ![t] = IF h.out.stmt.op = "INSERT" THEN @ + 1 ELSE @]
           /\ last' = Answer("create", t, NoId, hdr, body, h)
    /\ UNCHANGED <<route, now, files, inflight, lastPut>>

Patch(t, id, hdr, body) ==
    /\ route = t
    /\ \E h \in {Chain(hdr, db[t], PatchHandler(t, db[t], id, body, now))} :
           /\ db' = [db EXCEPT ![t] = h.out.rows]
           /\ last' = Answer("update", t, id, hdr, body, h)
    /\ UNCHANGED <<route, seq, now, files, inflight, lastPut>>

Delete(t, id, hdr) ==
    /\ route = t
    /\ \E h \in {Chain(hdr, db[t], DeleteHandler(t, db[t], id))} :
           /\ db' = [db EXCEPT ![t] = h.out.rows]
           /\ last' = Answer("delete", t, id, hdr, EmptyBody, h)
    /\ UNCHANGED <<route, seq, now, files, inflight, lastPut>>

GetById(t, id) ==
    /\ route = t
    /\ t \in HasGet
    /\ last' = Answer("get", t, id, << >>, EmptyBody, GetHandler(t, db[t], id))
    /\ UNCHANGED <<route, db, seq, now, files, inflight, lastPut>>

\* app.post("/api/upload", authRequired, adminRequired, upload.single("file"), ...):
\* ext is the extension of the file sent, "" when the request carries no file.
Upload(hdr, ext) ==
    /\ route = "upload"
    /\ IF Gates(hdr) # Pass
         THEN /\ files' = files
              /\ last' = Answer("upload", "upload", NoId, hdr, EmptyBody,
                                Handled(Gates(hdr), NoCall(<< >>)))
       ELSE IF ext = ""
         THEN /\ files' = files
              /\ last' = Answer("upload", "upload", NoId, hdr, EmptyBody,
                                Handled(Respond(400, "No file", << >>), NoCall(<< >>)))
       ELSE /\ files' = files \cup {UploadName(now, ext)}
            /\ last' = Answer("upload", "upload", NoId, hdr, EmptyBody,
                              Handled(Respond(200, "", <<UploadName(now, ext)>>),
                                      Outcome("file", << >>, << >>, Stmt("WRITE", "uploads", {}))))
    /\ UNCHANGED <<route, db, seq, now, inflight, lastPut>>

\* app.put("/api/site/contact") up to its await: the middleware, then the
\* destructuring of req.body.data, which throws when the body has no data.
PutReceive(c, hdr, body) ==
    /\ route = "contact_page"
    /\ inflight[c].pc # "query"
    /\ IF Gates(hdr) # Pass
         THEN /\ last' = Answer("put", "contact_page", NoId, hdr, EmptyBody,
                                Handled(Gates(hdr), NoCall(db["contact_page"])))
              /\ inflight' = inflight
       ELSE IF "data" \notin DOMAIN body
         THEN /\ last' = Answer("put", "contact_page", NoId, hdr, body,
                                Caught("Cannot destructure", NoCall(db["contact_page"])))
              /\ inflight' = inflight
       ELSE /\ last' = last
            /\ inflight' = [d \in Clients |->
                    IF d = c
                    THEN [pc |-> "query", data |-> body["data"], status |-> 0,
                          conc |-> \E e \in Clients \ {c} : inflight[e].pc = "query"]
                    ELSE IF inflight[d].pc = "query"
                    THEN [inflight[d] EXCEPT !.conc = TRUE]
                    ELSE inflight[d]]
    /\ UNCHANGED <<route, db, seq, now, files, lastPut>>

\* The statement of client c's request executes and the handler answers.
PutQuery(c) ==
    /\ route = "contact_page"
    /\ inflight[c].pc = "query"
    /\ LET q == SqlUpsertContact(db["contact_page"], PutValues(inflight[c].data), now)
           stmt == Stmt("UPSERT", "contact_page", UpsertSetColumns)
           h == IF q.err # "none"
                THEN Caught(q.err, Outcome("throw", q.rows, << >>, stmt))
                ELSE Handled(Respond(200, "", q.ret), Outcome("row", q.rows, q.ret, stmt))
       IN  /\ db' = [db EXCEPT !["contact_page"] = h.out.rows]
           /\ lastPut' = IF q.err = "none" THEN inflight[c].data ELSE lastPut
           /\ inflight' = [inflight EXCEPT ![c].pc = "done", ![c].status = h.resp.status]
           /\ last' = Answer("put", "contact_page", NoId, AdminHeader,
                             [data |-> inflight[c].data], h)
    /\ UNCHANGED <<route, seq, now, files>>

Tick ==
    /\ now < MaxNow
    /\ now' = now + 1
    /\ UNCHANGED <<route, db, seq, files, inflight, lastPut, last>>

-----------------------------------------------------------------------------
(* The requests sent *)

MaxKeys == 2     \* keys in the body of a partial update

\* The :id of a request: the ids the sequence hands out and one it never does.
ReqIds == {Num(i) : i \in 1..(MaxSeq + 1)}

TextKey(t) == IF t \in {"products", "customer_logos"} THEN "name" ELSE "title"

PostValue(k, text) ==
    CASE k = "sort_order" -> Num(3)
      [] k = "is_active" -> JFalse
      [] OTHER -> text

\* A create with the required text alone, and one that also gives the optional
\* sort_order and is_active.
MinimalBody(t) ==
    [k \in (IF t = "products" THEN {"category", "name"} ELSE {TextKey(t)}) |-> <<"a">>]

FullBody(t) ==
    [k \in DOMAIN MinimalBody(t) \cup ({"sort_order", "is_active"} \cap Columns(t)) |->
        PostValue(k, <<"A", " ", "b">>)]

PostBodies(t) == {EmptyBody, MinimalBody(t), FullBody(t)}

\* The keys of a partial update: the id, a column, a column in capitals, a key
\* that is no column, and a second column on two of the tables.
PatchKeys(t) ==
    {"id", "ID", "bogus", TextKey(t)} \cup
        (CASE t = "product_categories" -> {"subcategories"}
           [] t = "products" -> {"sort_order"}
           [] OTHER -> {})

PatchValue(k) ==
    CASE k = "id" -> Num(8)
      [] k = "ID" -> Num(9)
      [] k = "sort_order" -> Num(4)
      [] k = "subcategories" -> ListOf(<<"b">>)
      [] OTHER -> <<"b">>

\* Bodies of a partial update: up to MaxKeys of the keys above.
PatchBodies(t) ==
    {[k \in S |-> PatchValue(k)] :
        S \in {S \in SUBSET PatchKeys(t) : Cardinality(S) <= MaxKeys}}

SmallPatchBodies(t) == {EmptyBody, [k \in {TextKey(t)} |-> <<"b">>]}

\* req.body.data of a contact put: every field given, the texts strings and
\* address_lines a list.
ContactData(text, lines) ==
    [f \in ContactFields |-> IF f = "address_lines" THEN lines ELSE text]

ContactBodies ==
    {EmptyBody,
     [data |-> ContactData(<<"a">>, ListOf(<<"a">>))],
     [data |-> ContactData(<<"b">>, ListOf(<<"b", "a">>))],
     [data |-> ContactData(<< >>, EmptyList)]}

\* The body a request is drawn with: the middleware never reads it.
BodiesFor(hdr, bodies) == IF Gates(hdr) = Pass THEN bodies ELSE {EmptyBody}

-----------------------------------------------------------------------------
(* Spec: every route, under every Authorization header *)

Next ==
    \/ \E t \in Tables, hdr \in Headers :
            \E body \in BodiesFor(hdr, PostBodies(t)) : Post(t, hdr, body)
    \/ \E t \in Tables, id \in ReqIds, hdr \in Headers :
            \E body \in BodiesFor(hdr, SmallPatchBodies(t)) : Patch(t, id, hdr, body)
    \/ \E t \in Tables, id \in ReqIds, hdr \in Headers : Delete(t, id, hdr)
    \/ \E t \in Tables, id \in ReqIds : GetById(t, id)
    \/ \E hdr \in Headers, ext \in {"", ".png", ".jpg"} : Upload(hdr, ext)
    \/ \E c \in Clients, hdr \in Headers :
            \E body \in BodiesFor(hdr, ContactBodies) : PutReceive(c, hdr, body)
    \/ \E c \in Clients : PutQuery(c)

Spec == Init /\ [][Next]_vars

(* SpecPatch: an administrator's partial updates of the rows created *)

InitPatch == Init /\ route \in Tables

NextPatch ==
    \/ \E t \in Tables : \E body \in {MinimalBody(t), FullBody(t)} :
            Post(t, AdminHeader, body)
    \/ \E t \in Tables, id \in ReqIds : \E body \in PatchBodies(t) :
            Patch(t, id, AdminHeader, body)

SpecPatch == InitPatch /\ [][NextPatch]_vars

(* SpecSlug: an administrator's requests on the two category tables, the *)
(* titles and slugs varied and the clock running                         *)

SlugPostBodies ==
    {[k \in {"title"} |-> title] : title \in {<< >>, <<" ">>, <<"A", " ", "b">>}}
    \cup {[title |-> title, slug |-> <<"a">>] : title \in {<< >>, <<"A", " ", "b">>}}

SlugPatchBodies ==
    {[k \in {"title"} |-> title] : title \in {<< >>, <<"A", " ", "b">>}}
    \cup {[k \in {"slug"} |-> slug] : slug \in {<< >>, <<"a">>}}
    \cup {[title |-> <<"b">>, slug |-> slug] : slug \in {<< >>, <<"a">>}}
    \cup {EmptyBody}

InitSlug == Init /\ route \in Slugged

NextSlug ==
    \/ \E t \in Slugged, body \in SlugPostBodies : Post(t, AdminHeader, body)
    \/ \E t \in Slugged, id \in ReqIds, body \in SlugPatchBodies :
            Patch(t, id, AdminHeader, body)
    \/ \E t \in Slugged, id \in ReqIds : Delete(t, id, AdminHeader)
    \/ Tick

SpecSlug == InitSlug /\ [][NextSlug]_vars

-----------------------------------------------------------------------------
(* The claims *)

MutatingOps == {"create", "update", "delete", "put", "upload"}

\* The response of a PATCH route when no row has the id ("NotFound").
NotFoundResponse(t) == PatchResponse(t, Outcome("undefined", << >>, << >>, NoStmt))

ResponseOf(l) == Respond(l.status, l.msg, l.rows)

\* C1: an update whose payload has no applicable field (empty, or only the key
\* id) executes no storage statement and is answered with an outcome that
\* differs from the NotFound answer of an update on a missing id.
C1_NoChangeIsNotNotFound ==
    (last.op = "update" /\ last.hdr = AdminHeader /\ DOMAIN last.body \subseteq {"id"})
        => /\ last.stmt = NoStmt
           /\ ResponseOf(last) # NotFoundResponse(last.res)

\* C2: the columns that the statement of a partial update assigns are columns
\* of the resource's table: no other key of the payload reaches the statement.
C2_OnlyKnownColumns ==
    (last.op = "update" /\ last.stmt.op = "UPDATE")
        => last.stmt.cols \subseteq Columns(last.res)

\* C3: a successful partial update changes only the columns its fields name
\* (never id), only in the row with the request's id, leaves every other row
\* of every table as it was, and returns the row as stored afterwards.
C3_ExactlyTheNamedColumns ==
    [][(last'.op = "update" /\ last'.kind = "row") =>
        LET t == last'.res
            named == DOMAIN PatchUpdates(t, last'.body, now) \ {"id"}
        IN  /\ \A u \in DOMAIN db : u # t => db'[u] = db[u]
            /\ Len(db'[t]) = Len(db[t])
            /\ \A i \in 1..Len(db[t]) : \A c \in Columns(t) :
                    \/ db[t][i]["id"] = last'.id /\ c \in named
                    \/ db'[t][i][c] = db[t][i][c]
            /\ last'.rows = Filter(db'[t], {last'.id})]_vars

\* C4: a delete of an id with no stored record is answered NotFound (404); a
\* delete of a stored record is answered Deleted and the record is gone.
C4_DeleteMissingIsNotFound ==
    [][(last'.op = "delete" /\ last'.hdr = AdminHeader) =>
        IF last'.id \in IdsOf(db[last'.res])
        THEN /\ last'.status = 200 /\ last'.msg = "Deleted"
             /\ last'.id \notin IdsOf(db'[last'.res])
        ELSE last'.status = 404]_vars

\* C5: when two contact puts overlap, each is answered 200, the table holds
\* one row, and its content is the data of one of the two, the one whose
\* statement executed last.
ContactContent(row) == [f \in ContactFields |-> row[f]]

BothPutsDone ==
    \A c \in Clients : inflight[c].pc = "done" /\ inflight[c].conc

C5_ConcurrentPutsLastWriterWins ==
    BothPutsDone =>
        /\ \A c \in Clients : inflight[c].status = 200
        /\ Len(db["contact_page"]) = 1
        /\ ContactContent(db["contact_page"][1]) \in {inflight[c].data : c \in Clients}
        /\ ContactContent(db["contact_page"][1]) = lastPut

\* two overlapping puts of different data, the one received first written last
C5_Witness ==
    /\ BothPutsDone
    /\ inflight[1].data # inflight[2].data
    /\ lastPut = inflight[1].data
    /\ last.body = [data |-> inflight[1].data]

\* C6: a mutating request whose token is missing or invalid is answered 401, one
\* whose token is valid but not an admin's is answered 403, and neither makes a
\* storage call or changes what is stored.  (A step that answers a request is
\* one that changes last.)
C6_GatesBeforeHandlers ==
    [][(last' # last /\ last'.op \in MutatingOps /\ last'.hdr # AdminHeader) =>
        LET token == IF Len(last'.hdr) >= 2 THEN last'.hdr[2] ELSE ""
        IN  /\ last'.status = IF token = "" \/ ~JwtVerify(token).ok THEN 401 ELSE 403
            /\ last'.stmt = NoStmt
            /\ db' = db /\ seq' = seq /\ files' = files
            /\ inflight' = inflight /\ lastPut' = lastPut]_vars

\* an editor's delete of a stored row is answered 403 and the row is still stored
C6_Witness ==
    /\ last.op = "delete"
    /\ last.status = 403
    /\ last.id \in IdsOf(db[last.res])

\* C7: a created record that omitted sort_order is stored with sort_order 0, and
\* one that omitted is_active, on a type that has it, with is_active true.
C7_CreateAppliesDefaults ==
    (last.op = "create" /\ last.status = 200) =>
        LET row == last.rows[1]
        IN  /\ Filter(db[last.res], {row["id"]}) = <<row>>
            /\ "sort_order" \notin DOMAIN last.body => row["sort_order"] = Num(0)
            /\ ("is_active" \in Columns(last.res) /\ "is_active" \notin DOMAIN last.body)
                    => row["is_active"] = JTrue

\* C8: every stored category has a non-empty slug, and no two categories of a
\* table share a slug.
C8_SlugNonEmptyAndUnique ==
    \A t \in Slugged : \A i \in 1..Len(db[t]) :
        /\ db[t][i]["slug"] # << >>
        /\ \A j \in 1..Len(db[t]) : i # j => db[t][i]["slug"] # db[t][j]["slug"]

\* C9: a create on a slugged type with an empty title and no slug succeeds,
\* whatever was created before and at whatever instant, with a slug of the
\* form no-title-<suffix>.
C9_TitlelessCreatesNeverCollide ==
    (last.op = "create" /\ last.res \in Slugged /\ last.body = [title |-> << >>])
        => /\ last.status = 200
           /\ Len(last.rows[1]["slug"]) = 2
           /\ last.rows[1]["slug"][1] = "no-title-"

\* C10: once a contact put has executed, the table holds exactly one row, with
\* id 1, whose eleven content fields are those of the put executed last; before
\* any put it is empty.
C10_ContactSingleton ==
    IF lastPut = EmptyBody THEN db["contact_page"] = << >>
    ELSE /\ Len(db["contact_page"]) = 1
         /\ db["contact_page"][1]["id"] = Num(1)
         /\ \A f \in ContactFields : db["contact_page"][1][f] = lastPut[f]

\* a put that overwrote the row an earlier put of other data had stored
C10_Witness ==
    /\ \A c \in Clients : inflight[c].pc = "done" /\ ~inflight[c].conc
    /\ inflight[1].data # inflight[2].data
    /\ lastPut = inflight[2].data
    /\ ContactContent(db["contact_page"][1]) = inflight[2].data

\* C11: an update of an id that no stored row has, whose payload names at least
\* one column other than id, is answered NotFound (404), and no table gains a
\* row or has a row changed, on every table with a PATCH route.
C11_UpdateMissingIsNotFound ==
    [][(/\ last'.op = "update"
        /\ last'.hdr = AdminHeader
        /\ last'.id \notin IdsOf(db[last'.res])
        /\ (DOMAIN last'.body \cap Columns(last'.res)) \ {"id"} # {})
        => /\ ResponseOf(last') = NotFoundResponse(last'.res)
           /\ db' = db]_vars

\* C12: an update on a category table hands the partial update the payload
\* with slug = generateSlug(title) added exactly when the key title is in the
\* payload and the key slug is not, whatever the title (the empty string
\* included), and the payload as sent otherwise: the statement made, the rows
\* stored and the answer are those of dynamicUpdate on that payload.  (The
\* clock does not move within the step that handles the request.)
C12_SlugInjectedByKeyPresence ==
    [][(/\ last'.op = "update"
        /\ last'.hdr = AdminHeader
        /\ last'.res \in Slugged
        /\ now' = now)
        => LET t == last'.res
               body == last'.body
               payload ==
                   IF "title" \in DOMAIN body /\ "slug" \notin DOMAIN body
                   THEN [k \in DOMAIN body \cup {"slug"} |->
                           IF k = "slug" THEN generateSlug(body["title"], UNDEF, now)
                           ELSE body[k]]
                   ELSE body
               out == dynamicUpdate(t, db[t], last'.id, payload)
           IN  /\ last'.stmt = out.stmt
               /\ db'[t] = out.rows
               /\ ResponseOf(last') = PatchResponse(t, out)]_vars

=============================================================================
